---------------------------- MODULE Spec2Model ----------------------------
(***************************************************************************)
(* Selection state handling of the atomic components AtomicFilter,         *)
(* AtomicSort and AtomicPicker, text validation of AtomicNumberInput,      *)
(* icon lookup of AtomicIcon, the picker events of AtomicDatePicker, the   *)
(* press handling of AtomicButton, AtomicCard, AtomicChip and              *)
(* AtomicTouchable, and the displayed values of AtomicBadge and            *)
(* AtomicProgress.                                                         *)
(*                                                                         *)
(* Every component is controlled: it holds no selection of its own, it     *)
(* computes the next selection from the props of the current render and    *)
(* hands it to the caller's change callback.  The caller modelled here is  *)
(* the one of the components' usage examples (onSelectionChange =          *)
(* setSelectedFilters, onChange = setPartyType, onSortChange = setSortBy + *)
(* setSortDir): it stores what it is given and re-renders with it.         *)
(*                                                                         *)
(* Strings whose characters matter (labels, descriptions, the search       *)
(* query) are sequences of one-character strings; identifiers that are     *)
(* only compared (option ids, option values) are TLA+ strings.             *)
(***************************************************************************)
EXTENDS Integers, Sequences, FiniteSets, TLC

VARIABLES
    \* ---- AtomicFilter: props of the current render
    chipOptions,      \* options, as the list of their ids
    selectedIds,      \* selectedIds
    multiSelect,      \* multiSelect
    showClearAll,     \* showClearAll
    \* ---- AtomicFilter: observation of the last handler run
    f_lastOp,         \* "none" | "press" | "clear" | "rapid"
    f_lastId,         \* the id handed to handleFilterPress
    f_prev,           \* selectedIds the handler ran with
    f_emitted,        \* the argument of onSelectionChange
    f_calls,          \* the onSelectionChange calls of the last handler run
    f_propAfter,      \* the array passed as selectedIds, after the handler ran
    f_initValid,      \* the first render's selectedIds were all option ids
    f_startEmpty,     \* the first render had selectedIds = []
    f_cleared,        \* handleClearAll has run
    f_odd,            \* ids pressed an odd number of times so far
    f_firstId,        \* the first chip of two pressed within one render
    \* ---- AtomicSort: props of the current render
    sortOptions,      \* options, as the list of their ids
    selectedId,       \* selectedId (string | null)
    sortDirection,    \* sortDirection
    \* ---- AtomicSort: observation of the last two handler runs
    s_lastId,         \* the id handed to the last handleSortPress
    s_prevId,         \* selectedId the last handler ran with
    s_prevDir,        \* sortDirection the last handler ran with
    s_emitted,        \* the arguments of the last onSortChange
    s_calls,          \* the onSortChange calls of the last handler run
    s_lastId2,        \* the id handed to the handleSortPress before the last
    s_prevId2,        \* selectedId the handler before the last ran with
    s_prevDir2,       \* sortDirection the handler before the last ran with
    \* ---- AtomicPicker: props of the current render
    options,          \* options
    value,            \* value (string | string[])
    multiple,         \* multiple
    disabled,         \* disabled
    searchable,       \* searchable
    clearable,        \* clearable
    autoClose,        \* autoClose
    \* ---- AtomicPicker: component state (useState)
    modalVisible,     \* modalVisible
    searchQuery,      \* searchQuery
    \* ---- AtomicPicker: observation of the last handler run
    p_lastOp,         \* "none" | "open" | "close" | "search" | "option" | "chip" | "clear"
    p_lastArg,        \* the option value handed to the handler
    p_prevValue,      \* value the handler ran with
    p_emitted,        \* the argument of onChange, or NoCall
    p_calls,          \* the onChange calls of the last handler run
    p_propAfter,      \* the value passed as value, after the handler ran
    p_prevModal,      \* modalVisible the handler ran with
    p_queryDropped,   \* the handler ran with a typed searchQuery and emptied it
    p_queryKept,      \* the handler left searchQuery as it was
    p_initValid,      \* the first render's selected values were all option values
    \* ---- AtomicNumberInput: props of the current render
    numberValue,      \* value
    min,              \* min
    max,              \* max
    allowDecimal,     \* allowDecimal
    caller,           \* "setText" | "setAge": what the caller renders as value
    \* ---- AtomicNumberInput: component state (useState)
    internalError,    \* internalError
    \* ---- AtomicNumberInput: observation of the last handler run
    n_lastOp,         \* "none" | "key" | "set"
    n_lastText,       \* the text handed to handleChangeText
    n_prevValue,      \* value the handler ran with
    n_prevError,      \* internalError the handler ran with
    n_handlerError,   \* internalError as the handler left it, before the effect
    n_textCalls,      \* the onTextChange calls of the last handler run
    n_valueCalls,     \* the onValueChange calls of the last handler run
    externalState,    \* state (the caller's, optional)
    externalHelperText, \* helperText (the caller's, optional)
    n_state,          \* state passed to AtomicInput by the current render
    n_helperText,     \* helperText passed to AtomicInput by the current render
    \* ---- AtomicIcon: props of the current render, and the build
    iconName,         \* name
    sizeProp,         \* size
    customSize,       \* customSize
    withBackground,   \* withBackground
    isDev,            \* __DEV__
    \* ---- AtomicIcon: what the current render produced
    i_output,         \* the element returned, and the console.warn calls
    \* ---- AtomicDatePicker: platform, props of the current render, state
    platform,         \* Platform.OS
    dateValue,        \* value (Date | null)
    dateDisabled,     \* disabled
    showPicker,       \* showPicker (useState)
    \* ---- AtomicDatePicker: observation of the last handler run
    d_lastOp,         \* "none" | "open" | "event" | "done" | "backdrop" | "requestClose"
    d_lastType,       \* event.type handed to handleChange
    d_lastDate,       \* selectedDate handed to handleChange
    d_calls,          \* the onChange calls of the last handler run
    d_prevShow,       \* showPicker the handler ran with
    d_valueAtOpen,    \* value when the picker was last opened
    \* ---- a pressable control: which component, props of the current render
    controlKind,      \* "AtomicButton" | "AtomicCard" | "AtomicChip" | "AtomicTouchable"
    controlDisabled,  \* disabled
    controlClickable, \* clickable (AtomicChip)
    controlCallbacks, \* whether the caller passed the press callbacks
    \* ---- a pressable control: observation of the last gesture
    c_lastGesture,    \* "none" | "press" | "pressIn" | "pressOut" | "longPress"
    c_calls,          \* the caller's callbacks the gesture invoked
    \* ---- AtomicBadge: props of the current render and what it returns
    badgeChildren,    \* children, a number
    badgeMax,         \* max (optional)
    showZero,         \* showZero
    b_output,         \* the element returned: null or a badge with its text
    \* ---- AtomicProgress: props of the current render and what it returns
    progressValue,    \* value, in halves (201 is 100.5)
    showPercentage,   \* showPercentage
    showValue,        \* showValue
    g_output          \* the fill width in halves of a percent, and the text

filterVars == <<chipOptions, selectedIds, multiSelect, showClearAll, f_lastOp,
                f_lastId, f_prev, f_emitted, f_calls, f_propAfter, f_initValid,
                f_startEmpty, f_cleared, f_odd, f_firstId>>
sortVars == <<sortOptions, selectedId, sortDirection, s_lastId, s_prevId,
              s_prevDir, s_emitted, s_calls, s_lastId2, s_prevId2, s_prevDir2>>
pickerVars == <<options, value, multiple, disabled, searchable, clearable,
                autoClose, modalVisible, searchQuery, p_lastOp, p_lastArg,
                p_prevValue, p_emitted, p_calls, p_propAfter, p_prevModal,
                p_queryDropped, p_queryKept, p_initValid>>
numberVars == <<numberValue, min, max, allowDecimal, caller, internalError,
                n_lastOp, n_lastText, n_prevValue, n_prevError,
                n_handlerError, n_textCalls, n_valueCalls, externalState,
                externalHelperText, n_state, n_helperText>>
iconVars == <<iconName, sizeProp, customSize, withBackground, isDev, i_output>>
dateVars == <<platform, dateValue, dateDisabled, showPicker, d_lastOp,
              d_lastType, d_lastDate, d_calls, d_prevShow, d_valueAtOpen>>
\* the components added after the first five, together
controlVars == <<controlKind, controlDisabled, controlClickable,
                 controlCallbacks, c_lastGesture, c_calls>>
badgeVars == <<badgeChildren, badgeMax, showZero, b_output>>
progressVars == <<progressValue, showPercentage, showValue, g_output>>
restVars == <<dateVars, controlVars, badgeVars, progressVars>>
coreVars == <<filterVars, sortVars, pickerVars, numberVars, iconVars>>
vars == <<coreVars, restVars>>
notFilterVars == <<sortVars, pickerVars, numberVars, iconVars, restVars>>
notSortVars == <<filterVars, pickerVars, numberVars, iconVars, restVars>>
notPickerVars == <<filterVars, sortVars, numberVars, iconVars, restVars>>
notNumberVars == <<filterVars, sortVars, pickerVars, iconVars, restVars>>
notIconVars == <<filterVars, sortVars, pickerVars, numberVars, restVars>>
notDateVars == <<coreVars, controlVars, badgeVars, progressVars>>
notControlVars == <<coreVars, dateVars, badgeVars, progressVars>>
notBadgeVars == <<coreVars, dateVars, controlVars, progressVars>>
notProgressVars == <<coreVars, dateVars, controlVars, badgeVars>>

(***************************************************************************)
(* Bounds and input sets                                                   *)
(***************************************************************************)
\* longest selectedIds array the caller passes to the first render
MaxSelLen == 3

\* option ids of the filter
FilterIds == {"a", "b", "c"}
\* option ids of the sort
SortIds == {"name", "date", "priority"}
\* selectedId = null; no option has this id
NULL == "<null>"
\* "no handler has run yet"
NONE == "<none>"
\* an optional prop or argument that was not passed
UNDEFINED == "<undefined>"

\* Array.prototype.includes over ids
Includes(s, x) == \E i \in 1..Len(s) : s[i] = x

Range(s) == {s[i] : i \in 1..Len(s)}

IsDistinct(s) == \A i, j \in 1..Len(s) : s[i] = s[j] => i = j

\* all arrays over S of length at most n
SeqsUpTo(S, n) == UNION {[1..k -> S] : k \in 0..n}

\* all arrays of distinct elements of S (React keys: one option per id)
DistinctSeqs(S) == {s \in SeqsUpTo(S, Cardinality(S)) : IsDistinct(s)}

(***************************************************************************)
(* AtomicFilter                                                            *)
(***************************************************************************)
\* selectedIds.filter(id => id !== optionId)
WithoutId(ids, optionId) == SelectSeq(ids, LAMBDA id : id # optionId)

\* handleFilterPress with a select that puts the new id first
handleFilterPress_prepend(ids, multi, optionId) ==
    IF multi
    THEN IF Includes(ids, optionId)
         THEN WithoutId(ids, optionId)
         ELSE <<optionId>> \o ids
    ELSE IF Includes(ids, optionId)
         THEN <<>>
         ELSE <<optionId>>

\* handleFilterPress with a deselect that removes nothing
handleFilterPress_keep(ids, multi, optionId) ==
    IF multi
    THEN IF Includes(ids, optionId)
         THEN ids
         ELSE Append(ids, optionId)
    ELSE IF Includes(ids, optionId)
         THEN <<>>
         ELSE <<optionId>>

\* handleFilterPress that clears in single mode only when the pressed id is
\* the whole selection
handleFilterPress_sole(ids, multi, optionId) ==
    IF multi
    THEN IF Includes(ids, optionId)
         THEN WithoutId(ids, optionId)
         ELSE Append(ids, optionId)
    ELSE IF ids = <<optionId>>
         THEN <<>>
         ELSE <<optionId>>

\* handleFilterPress whose single mode adds to the selection
handleFilterPress_singleAdds(ids, multi, optionId) ==
    IF Includes(ids, optionId)
    THEN IF multi THEN WithoutId(ids, optionId) ELSE <<>>
    ELSE Append(ids, optionId)

\* the argument handleFilterPress passes to onSelectionChange
handleFilterPress(ids, multi, optionId) ==
    IF multi
    THEN IF Includes(ids, optionId)
         THEN WithoutId(ids, optionId)
         ELSE Append(ids, optionId)
    ELSE IF Includes(ids, optionId)
         THEN <<>>
         ELSE <<optionId>>

\* the argument handleClearAll passes to onSelectionChange
handleClearAll(ids) == <<>>

\* the array passed as selectedIds after handleFilterPress ran on it:
\* filter(), the spread and the array literal all build a new array
selectedIdsAfterFilterPress_push(ids, multi, optionId) ==
    IF multi /\ ~Includes(ids, optionId) THEN Append(ids, optionId) ELSE ids

selectedIdsAfterFilterPress(ids, multi, optionId) == ids

\* the array passed as selectedIds after handleClearAll ran
selectedIdsAfterClearAll(ids) == ids

\* the onSelectionChange calls of one handleFilterPress: every branch makes
\* one call and the branches exclude each other
handleFilterPressCalls(ids, multi, optionId) ==
    <<handleFilterPress(ids, multi, optionId)>>

\* the onSelectionChange calls of one handleClearAll
handleClearAllCalls(ids) == <<handleClearAll(ids)>>

hasActiveFilters == Len(selectedIds) > 0

FilterInit ==
    /\ chipOptions \in DistinctSeqs(FilterIds)
    /\ selectedIds \in SeqsUpTo(FilterIds, MaxSelLen)
    /\ multiSelect \in BOOLEAN
    /\ showClearAll \in BOOLEAN
    /\ f_lastOp = "none"
    /\ f_lastId = NONE
    /\ f_prev = <<>>
    /\ f_emitted = <<>>
    /\ f_calls = <<>>
    /\ f_propAfter = <<>>
    /\ f_initValid = (\A i \in 1..Len(selectedIds) : Includes(chipOptions, selectedIds[i]))
    /\ f_startEmpty = (selectedIds = <<>>)
    /\ f_cleared = FALSE
    /\ f_odd = {}
    /\ f_firstId = NONE

\* a chip of the rendered option list is pressed; the caller stores the
\* emitted selection and the component re-renders with it
FilterPress(optionId) ==
    /\ Includes(chipOptions, optionId)
    /\ f_lastOp' = "press"
    /\ f_lastId' = optionId
    /\ f_prev' = selectedIds
    /\ f_emitted' = handleFilterPress(selectedIds, multiSelect, optionId)
    /\ f_calls' = handleFilterPressCalls(selectedIds, multiSelect, optionId)
    /\ f_propAfter' = selectedIdsAfterFilterPress(selectedIds, multiSelect, optionId)
    /\ selectedIds' = f_emitted'
    /\ f_odd' = IF optionId \in f_odd THEN f_odd \ {optionId}
                                      ELSE f_odd \cup {optionId}
    /\ f_firstId' = NONE
    /\ UNCHANGED <<chipOptions, multiSelect, showClearAll, f_initValid,
                   f_startEmpty, f_cleared>>
    /\ UNCHANGED notFilterVars

\* the Clear All button, rendered when showClearAll && hasActiveFilters
FilterClearAll ==
    /\ showClearAll
    /\ hasActiveFilters
    /\ f_lastOp' = "clear"
    /\ f_lastId' = NONE
    /\ f_prev' = selectedIds
    /\ f_emitted' = handleClearAll(selectedIds)
    /\ f_calls' = handleClearAllCalls(selectedIds)
    /\ f_propAfter' = selectedIdsAfterClearAll(selectedIds)
    /\ selectedIds' = f_emitted'
    /\ f_cleared' = TRUE
    /\ f_firstId' = NONE
    /\ UNCHANGED <<chipOptions, multiSelect, showClearAll, f_initValid,
                   f_startEmpty, f_odd>>
    /\ UNCHANGED notFilterVars

\* the ids pressed an odd number of times after one more press of optionId
oddAfter(odd, optionId) ==
    IF optionId \in odd THEN odd \ {optionId} ELSE odd \cup {optionId}

\* two different chips are pressed and both presses are handled by the
\* handleFilterPress of the same render, which closes over that render's
\* selectedIds; the caller stores each emitted selection in turn (a plain
\* setState(value)), and the component re-renders with the last one
FilterRapidPress(firstId, secondId) ==
    /\ firstId # secondId
    /\ Includes(chipOptions, firstId)
    /\ Includes(chipOptions, secondId)
    /\ f_lastOp' = "rapid"
    /\ f_firstId' = firstId
    /\ f_lastId' = secondId
    /\ f_prev' = selectedIds
    /\ f_calls' = handleFilterPressCalls(selectedIds, multiSelect, firstId)
                      \o handleFilterPressCalls(selectedIds, multiSelect, secondId)
    /\ f_emitted' = f_calls'[Len(f_calls')]
    /\ f_propAfter' = selectedIdsAfterFilterPress(
                          selectedIdsAfterFilterPress(selectedIds, multiSelect, firstId),
                          multiSelect, secondId)
    /\ selectedIds' = f_emitted'
    /\ f_odd' = oddAfter(oddAfter(f_odd, firstId), secondId)
    /\ UNCHANGED <<chipOptions, multiSelect, showClearAll, f_initValid,
                   f_startEmpty, f_cleared>>
    /\ UNCHANGED notFilterVars

(***************************************************************************)
(* AtomicSort                                                              *)
(***************************************************************************)
\* handleSortPress that keeps the direction when another id is selected
handleSortPress_keepDirection(sel, dir, optionId) ==
    IF sel = optionId
    THEN [id |-> optionId, direction |-> IF dir = "asc" THEN "desc" ELSE "asc"]
    ELSE [id |-> optionId, direction |-> dir]

\* handleSortPress that flips the direction on every press
handleSortPress_alwaysFlip(sel, dir, optionId) ==
    [id |-> optionId, direction |-> IF dir = "asc" THEN "desc" ELSE "asc"]

\* the arguments handleSortPress passes to onSortChange
handleSortPress(sel, dir, optionId) ==
    IF sel = optionId
    THEN [id |-> optionId, direction |-> IF dir = "asc" THEN "desc" ELSE "asc"]
    ELSE [id |-> optionId, direction |-> "asc"]

\* the onSortChange calls of one handleSortPress
handleSortPressCalls(sel, dir, optionId) == <<handleSortPress(sel, dir, optionId)>>

SortInit ==
    /\ sortOptions \in DistinctSeqs(SortIds)
    /\ selectedId \in SortIds \cup {NULL}
    /\ sortDirection \in {"asc", "desc"}
    /\ s_lastId = NONE
    /\ s_prevId = NULL
    /\ s_prevDir = "asc"
    /\ s_emitted = [id |-> NONE, direction |-> "asc"]
    /\ s_calls = <<>>
    /\ s_lastId2 = NONE
    /\ s_prevId2 = NULL
    /\ s_prevDir2 = "asc"

\* a chip of the rendered option list is pressed; the caller stores both
\* arguments (setSortBy, setSortDir) and the component re-renders
SortPress(optionId) ==
    /\ Includes(sortOptions, optionId)
    /\ s_lastId2' = s_lastId
    /\ s_prevId2' = s_prevId
    /\ s_prevDir2' = s_prevDir
    /\ s_lastId' = optionId
    /\ s_prevId' = selectedId
    /\ s_prevDir' = sortDirection
    /\ s_emitted' = handleSortPress(selectedId, sortDirection, optionId)
    /\ s_calls' = handleSortPressCalls(selectedId, sortDirection, optionId)
    /\ selectedId' = s_emitted'.id
    /\ sortDirection' = s_emitted'.direction
    /\ UNCHANGED sortOptions
    /\ UNCHANGED notSortVars

(***************************************************************************)
(* AtomicPicker: values and strings                                        *)
(***************************************************************************)
\* option values of the picker
PickerValues == {"a", "b"}
\* longest value array the caller passes to the first render
MaxValueLen == 2
\* longest option label
MaxLabelLen == 2
\* longest text typed into the search input
MaxQueryLen == 2

\* characters of labels
LabelChars == {"a", "A", "b"}
\* characters of descriptions
DescriptionChars == {"A", "b"}
\* characters of the search query
QueryChars == {"a", "A", " "}
\* white space, as String.prototype.trim sees it
WhiteSpace == {" "}

\* a JavaScript string and a JavaScript array (of strings) as the value prop
Str(s) == [t |-> "string", v |-> s]
Arr(a) == [t |-> "array", v |-> a]
\* onChange was not invoked
NoCall == [t |-> "nocall", v |-> ""]

\* x === y for strings, and for a string against an array (never equal)
StrictEq(x, y) == x.t = y.t /\ x.v = y.v

\* the truthiness of a value: every array is truthy, '' is falsy
Truthy(x) == x.t = "array" \/ x.v # ""

\* Array.prototype.includes over the elements of selectedValues
IncludesValue(s, x) == \E i \in 1..Len(s) : StrictEq(s[i], x)

\* String.prototype.toLowerCase, one character
toLowerCaseChar(c) ==
    CASE c = "A" -> "a"
      [] c = "B" -> "b"
      [] OTHER -> c

\* a toLowerCase that changes nothing
toLowerCase_identity(s) == s

\* String.prototype.toLowerCase
toLowerCase(s) == [i \in 1..Len(s) |-> toLowerCaseChar(s[i])]

RECURSIVE trimStart(_)
trimStart(s) ==
    IF s # <<>> /\ Head(s) \in WhiteSpace THEN trimStart(Tail(s)) ELSE s

RECURSIVE trimEnd(_)
trimEnd(s) ==
    IF s # <<>> /\ s[Len(s)] \in WhiteSpace
    THEN trimEnd(SubSeq(s, 1, Len(s) - 1))
    ELSE s

\* a trim that removes nothing
trim_identity(s) == s

\* String.prototype.trim
trim(s) == trimEnd(trimStart(s))

\* String.prototype.includes
StringIncludes(s, q) ==
    \E i \in 0..(Len(s) - Len(q)) : SubSeq(s, i + 1, i + Len(q)) = q

(***************************************************************************)
(* AtomicPicker                                                            *)
(***************************************************************************)
\* useMemo selectedValues: the value prop normalised to an array
selectedValues(val, multi) ==
    IF multi
    THEN IF val.t = "array" THEN val.v ELSE <<>>
    ELSE IF Truthy(val) THEN <<val>> ELSE <<>>

\* useMemo selectedOptions
selectedOptions(opts, val, multi) ==
    SelectSeq(opts, LAMBDA opt : IncludesValue(selectedValues(val, multi), Str(opt.value)))

\* the predicate of options.filter in filteredOptions; query is lower-cased
optionMatches(opt, query) ==
    \/ StringIncludes(toLowerCase(opt.label), query)
    \/ (opt.hasDescription /\ StringIncludes(toLowerCase(opt.description), query))

\* useMemo filteredOptions
filteredOptions(opts, sq) ==
    IF trim(sq) = <<>>
    THEN opts
    ELSE SelectSeq(opts, LAMBDA opt : optionMatches(opt, toLowerCase(sq)))

\* the body of the modal that tests the option list, not the filtered list
modalContent_allOptions(opts, sq) ==
    IF Len(opts) > 0 THEN "FlatList" ELSE "emptyMessage"

\* the body of the open modal: the FlatList of the filtered options, or the
\* empty state with emptyMessage
modalContent(opts, sq) ==
    IF Len(filteredOptions(opts, sq)) > 0 THEN "FlatList" ELSE "emptyMessage"

\* handleSelect whose single mode clears on the current value
handleSelect_toggleOff(val, multi, optionValue) ==
    IF multi
    THEN IF IncludesValue(selectedValues(val, multi), Str(optionValue))
         THEN Arr(SelectSeq(selectedValues(val, multi),
                            LAMBDA v : ~StrictEq(v, Str(optionValue))))
         ELSE Arr(Append(selectedValues(val, multi), Str(optionValue)))
    ELSE IF StrictEq(val, Str(optionValue)) THEN Str("") ELSE Str(optionValue)

\* the argument handleSelect passes to onChange
handleSelect(val, multi, optionValue) ==
    IF multi
    THEN IF IncludesValue(selectedValues(val, multi), Str(optionValue))
         THEN Arr(SelectSeq(selectedValues(val, multi),
                            LAMBDA v : ~StrictEq(v, Str(optionValue))))
         ELSE Arr(Append(selectedValues(val, multi), Str(optionValue)))
    ELSE Str(optionValue)

\* handleClear that emits the placeholder in single-select mode
handleClear_placeholder(multi) == IF multi THEN Arr(<<>>) ELSE Str("Select...")

\* handleClear that emits [] in either mode
handleClear_alwaysArray(multi) == Arr(<<>>)

\* the argument handleClear passes to onChange
handleClear(multi) == IF multi THEN Arr(<<>>) ELSE Str("")

\* the onChange calls of one handleSelect: one call in either mode
handleSelectCalls(val, multi, optionValue) ==
    <<handleSelect(val, multi, optionValue)>>

\* the onChange calls of one handleClear
handleClearCalls(multi) == <<handleClear(multi)>>

\* the value passed as value after handleSelect ran on it: filter() and the
\* spread build a new array
valueAfterSelect(val, multi, optionValue) == val

\* the value passed as value after handleClear ran
valueAfterClear(val, multi) == val

\* openModal: modalVisible and searchQuery after it
\* openModal without the disabled guard
openModal_ignoreDisabled(dis, visible, sq) ==
    [modalVisible |-> TRUE, searchQuery |-> <<>>]

openModal(dis, visible, sq) ==
    IF dis THEN [modalVisible |-> visible, searchQuery |-> sq]
           ELSE [modalVisible |-> TRUE, searchQuery |-> <<>>]

\* closeModal: modalVisible and searchQuery after it
closeModal_keepQuery == [modalVisible |-> FALSE, searchQuery |-> searchQuery]

closeModal == [modalVisible |-> FALSE, searchQuery |-> <<>>]

\* handleSelect: modalVisible and searchQuery after it
\* handleSelect that closes the modal in multi-select mode too
handleSelectModal_multiCloses(multi, auto, visible, sq) ==
    IF auto THEN closeModal
            ELSE [modalVisible |-> visible, searchQuery |-> sq]

handleSelectModal(multi, auto, visible, sq) ==
    IF ~multi /\ auto THEN closeModal
                      ELSE [modalVisible |-> visible, searchQuery |-> sq]

\* the picker button is pressed
PickerOpen ==
    /\ modalVisible' = openModal(disabled, modalVisible, searchQuery).modalVisible
    /\ searchQuery' = openModal(disabled, modalVisible, searchQuery).searchQuery
    /\ p_lastOp' = "open"
    /\ p_lastArg' = NONE
    /\ p_prevValue' = value
    /\ p_prevModal' = modalVisible
    /\ UNCHANGED p_initValid
    /\ p_emitted' = NoCall
    /\ p_calls' = <<>>
    /\ p_propAfter' = value
    /\ UNCHANGED <<options, value, multiple, disabled, searchable, clearable, autoClose>>
    /\ p_queryDropped' = (searchQuery # <<>> /\ searchQuery' = <<>>)
    /\ p_queryKept' = (searchQuery' = searchQuery)
    /\ UNCHANGED notPickerVars

\* the modal's close button, or the modal's onRequestClose
PickerClose ==
    /\ modalVisible
    /\ modalVisible' = closeModal.modalVisible
    /\ searchQuery' = closeModal.searchQuery
    /\ p_lastOp' = "close"
    /\ p_lastArg' = NONE
    /\ p_prevValue' = value
    /\ p_prevModal' = modalVisible
    /\ UNCHANGED p_initValid
    /\ p_emitted' = NoCall
    /\ p_calls' = <<>>
    /\ p_propAfter' = value
    /\ UNCHANGED <<options, value, multiple, disabled, searchable, clearable, autoClose>>
    /\ p_queryDropped' = (searchQuery # <<>> /\ searchQuery' = <<>>)
    /\ p_queryKept' = (searchQuery' = searchQuery)
    /\ UNCHANGED notPickerVars

\* text is typed into (or cleared from) the search input of the open modal
PickerSearch(query) ==
    /\ modalVisible
    /\ searchable
    /\ searchQuery' = query
    /\ p_lastOp' = "search"
    /\ p_lastArg' = NONE
    /\ p_prevValue' = value
    /\ p_prevModal' = modalVisible
    /\ UNCHANGED p_initValid
    /\ p_emitted' = NoCall
    /\ p_calls' = <<>>
    /\ p_propAfter' = value
    /\ UNCHANGED <<options, value, multiple, disabled, searchable, clearable,
                   autoClose, modalVisible>>
    /\ p_queryDropped' = (searchQuery # <<>> /\ searchQuery' = <<>>)
    /\ p_queryKept' = (searchQuery' = searchQuery)
    /\ UNCHANGED notPickerVars

\* an option row of the open modal's list is pressed; a disabled row ignores
\* the press, otherwise the caller stores the emitted value
PickerOptionPress(item) ==
    /\ modalVisible
    /\ Includes(filteredOptions(options, searchQuery), item)
    /\ p_lastOp' = "option"
    /\ p_lastArg' = item.value
    /\ p_prevValue' = value
    /\ p_prevModal' = modalVisible
    /\ UNCHANGED p_initValid
    /\ IF item.disabled
       THEN /\ p_emitted' = NoCall
            /\ p_calls' = <<>>
            /\ p_propAfter' = value
            /\ UNCHANGED <<value, modalVisible, searchQuery>>
       ELSE /\ p_emitted' = handleSelect(value, multiple, item.value)
            /\ p_calls' = handleSelectCalls(value, multiple, item.value)
            /\ p_propAfter' = valueAfterSelect(value, multiple, item.value)
            /\ value' = p_emitted'
            /\ modalVisible' =
                 handleSelectModal(multiple, autoClose, modalVisible, searchQuery).modalVisible
            /\ searchQuery' =
                 handleSelectModal(multiple, autoClose, modalVisible, searchQuery).searchQuery
    /\ UNCHANGED <<options, multiple, disabled, searchable, clearable, autoClose>>
    /\ p_queryDropped' = (searchQuery # <<>> /\ searchQuery' = <<>>)
    /\ p_queryKept' = (searchQuery' = searchQuery)
    /\ UNCHANGED notPickerVars

\* the X of a selected chip under the picker button (multi-select only)
PickerChipPress(item) ==
    /\ multiple
    /\ Includes(selectedOptions(options, value, multiple), item)
    /\ p_lastOp' = "chip"
    /\ p_lastArg' = item.value
    /\ p_prevValue' = value
    /\ p_prevModal' = modalVisible
    /\ UNCHANGED p_initValid
    /\ p_emitted' = handleSelect(value, multiple, item.value)
    /\ p_calls' = handleSelectCalls(value, multiple, item.value)
    /\ p_propAfter' = valueAfterSelect(value, multiple, item.value)
    /\ value' = p_emitted'
    /\ modalVisible' =
         handleSelectModal(multiple, autoClose, modalVisible, searchQuery).modalVisible
    /\ searchQuery' =
         handleSelectModal(multiple, autoClose, modalVisible, searchQuery).searchQuery
    /\ UNCHANGED <<options, multiple, disabled, searchable, clearable, autoClose>>
    /\ p_queryDropped' = (searchQuery # <<>> /\ searchQuery' = <<>>)
    /\ p_queryKept' = (searchQuery' = searchQuery)
    /\ UNCHANGED notPickerVars

\* the clear button, rendered when clearable && selectedOptions.length > 0
\* && !disabled
PickerClear ==
    /\ clearable
    /\ Len(selectedOptions(options, value, multiple)) > 0
    /\ ~disabled
    /\ p_lastOp' = "clear"
    /\ p_lastArg' = NONE
    /\ p_prevValue' = value
    /\ p_prevModal' = modalVisible
    /\ UNCHANGED p_initValid
    /\ p_emitted' = handleClear(multiple)
    /\ p_calls' = handleClearCalls(multiple)
    /\ p_propAfter' = valueAfterClear(value, multiple)
    /\ value' = p_emitted'
    /\ UNCHANGED <<options, multiple, disabled, searchable, clearable, autoClose,
                   modalVisible, searchQuery>>
    /\ p_queryDropped' = (searchQuery # <<>> /\ searchQuery' = <<>>)
    /\ p_queryKept' = (searchQuery' = searchQuery)
    /\ UNCHANGED notPickerVars

\* an option whose texts do not matter: its label is its value
PlainOption(v, dis) ==
    [value |-> v, label |-> <<v>>, hasDescription |-> FALSE,
     description |-> <<>>, disabled |-> dis]

\* option lists with one option per value, any of them disabled
PlainOptionLists ==
    {[i \in 1..Len(vs) |-> PlainOption(vs[i], ds[i])] :
        <<vs, ds>> \in {p \in DistinctSeqs(PickerValues) \X SeqsUpTo(BOOLEAN, Cardinality(PickerValues)) :
                           Len(p[1]) = Len(p[2])}}

\* value props: a string (an option value or ''), or an array of option values
ValueProps ==
    {Str(s) : s \in PickerValues \cup {""}}
        \cup {Arr([i \in 1..Len(a) |-> Str(a[i])]) : a \in SeqsUpTo(PickerValues, MaxValueLen)}

\* the texts an option can carry: a label, and no description or a
\* description of one character
Labels == SeqsUpTo(LabelChars, MaxLabelLen)
Descriptions == {<<c>> : c \in DescriptionChars}
Texts ==
    {[label |-> l, hasDescription |-> FALSE, description |-> <<>>] : l \in Labels}
        \cup {[label |-> l, hasDescription |-> TRUE, description |-> d] :
                 l \in Labels, d \in Descriptions}

TextOption(v, txt) ==
    [value |-> v, label |-> txt.label, hasDescription |-> txt.hasDescription,
     description |-> txt.description, disabled |-> FALSE]

\* option lists with one option per value, over all their texts
TextOptionLists ==
    UNION {{[i \in 1..Len(vs) |-> TextOption(vs[i], ts[i])] : ts \in [1..Len(vs) -> Texts]} :
           vs \in DistinctSeqs(PickerValues)}

\* what onChangeText reports after one edit of the search input showing sq:
\* a character typed at the end, the last character deleted, or the input
\* emptied (also the X beside the input: handleSearch(''))
Edits(sq) ==
    {Append(sq, c) : c \in {d \in QueryChars : Len(sq) < MaxQueryLen}}
        \cup {SubSeq(sq, 1, Len(sq) - 1) : k \in {n \in {1} : Len(sq) > 0}}
        \cup {<<>>}


PickerObservedNothing ==
    /\ p_lastOp = "none" /\ p_lastArg = NONE /\ p_prevValue = value
    /\ p_emitted = NoCall /\ p_calls = <<>> /\ p_propAfter = value
    /\ p_prevModal = FALSE /\ p_queryDropped = FALSE /\ p_queryKept = TRUE
    /\ p_initValid =
         (\A i \in 1..Len(selectedValues(value, multiple)) :
             \E j \in 1..Len(options) :
                 StrictEq(Str(options[j].value), selectedValues(value, multiple)[i]))

\* the picker with plain options, over all props
PickerInit ==
    /\ options \in PlainOptionLists
    /\ value \in ValueProps
    /\ multiple \in BOOLEAN
    /\ disabled \in BOOLEAN
    /\ searchable \in BOOLEAN
    /\ clearable \in BOOLEAN
    /\ autoClose \in BOOLEAN
    /\ modalVisible = FALSE
    /\ searchQuery = <<>>
    /\ PickerObservedNothing

\* the searchable single-select picker, over all option texts
PickerSearchInit ==
    /\ options \in TextOptionLists
    /\ value = Str("")
    /\ multiple = FALSE
    /\ disabled = FALSE
    /\ searchable = TRUE
    /\ clearable = FALSE
    /\ autoClose = TRUE
    /\ modalVisible = FALSE
    /\ searchQuery = <<>>
    /\ PickerObservedNothing

(***************************************************************************)
(* AtomicNumberInput                                                       *)
(*                                                                         *)
(* Texts are sequences of one-character strings.  A number is the pair of  *)
(* a mantissa m and a count e of fraction digits, standing for m / 10^e,   *)
(* with no trailing zero in the fraction, so that equal numbers are equal  *)
(* pairs; the sign of zero is not kept.  AtomicInput hands value and       *)
(* onChangeText through to the text input, so the text on screen is the    *)
(* value prop and a keystroke edits it.                                    *)
(***************************************************************************)
\* the longest text a keystroke can produce
MaxTextLen == 3
\* badge counts and max values lie in -MaxBadge..MaxBadge
MaxBadge == 5
\* progress values lie in -MaxExcess..100 + MaxExcess
MaxExcess == 3

\* \d of the format gate, the digits parseFloat reads
Digits == {"0", "1", "2", "3", "4", "5", "6", "7", "8", "9"}

DigitValue ==
    [c \in Digits |->
        CASE c = "0" -> 0 [] c = "1" -> 1 [] c = "2" -> 2 [] c = "3" -> 3
          [] c = "4" -> 4 [] c = "5" -> 5 [] c = "6" -> 6 [] c = "7" -> 7
          [] c = "8" -> 8 [] c = "9" -> 9]

DigitChar == [k \in 0..9 |-> CHOOSE c \in Digits : DigitValue[c] = k]

\* the characters a keystroke can add: digits, the sign, the point, a letter
NumberChars == {"0", "2", "4", "5", "-", ".", "a"}

\* a prop that was not passed, and one that was
Undefined == [def |-> FALSE, v |-> 0]
Defined(n) == [def |-> TRUE, v |-> n]

\* min and max of the renders
MinProps == {Undefined, Defined(0)}
MaxProps == {Undefined, Defined(4), Defined(150)}

\* number | null, and NaN
Num(m, e) == [t |-> "number", m |-> m, e |-> e]
Null == [t |-> "null", m |-> 0, e |-> 0]
NaN == [t |-> "NaN", m |-> 0, e |-> 0]
isNaN(n) == n.t = "NaN"

\* string | undefined of internalError
NoError == [kind |-> "undefined", limit |-> 0]
InvalidNumber == [kind |-> "Invalid number", limit |-> 0]
MinimumValueIs(n) == [kind |-> "Minimum value is", limit |-> n]
MaximumValueIs(n) == [kind |-> "Maximum value is", limit |-> n]

RECURSIVE Pow10(_)
Pow10(e) == IF e = 0 THEN 1 ELSE 10 * Pow10(e - 1)

\* the longest prefix of digits
RECURSIVE DigitPrefix(_)
DigitPrefix(s) ==
    IF s # <<>> /\ Head(s) \in Digits THEN <<Head(s)>> \o DigitPrefix(Tail(s))
                                      ELSE <<>>

\* the number a digit string writes
RECURSIVE DigitsValue(_)
DigitsValue(s) ==
    IF s = <<>> THEN 0
    ELSE 10 * DigitsValue(SubSeq(s, 1, Len(s) - 1)) + DigitValue[s[Len(s)]]

RECURSIVE Normalize(_, _)
Normalize(m, e) ==
    IF e > 0 /\ m % 10 = 0 THEN Normalize(m \div 10, e - 1) ELSE Num(m, e)

\* parseFloat: the longest prefix that is a decimal literal (sign, digits,
\* point, digits), NaN when that prefix has no digit
parseFloat(text) ==
    LET neg == text # <<>> /\ Head(text) = "-"
        body == IF neg THEN Tail(text) ELSE text
        ip == DigitPrefix(body)
        rest == SubSeq(body, Len(ip) + 1, Len(body))
        fp == IF rest # <<>> /\ Head(rest) = "." THEN DigitPrefix(Tail(rest)) ELSE <<>>
        abs == DigitsValue(ip \o fp)
    IN  IF ip = <<>> /\ fp = <<>> THEN NaN
        ELSE Normalize(IF neg THEN 0 - abs ELSE abs, Len(fp))

\* num < k and num > k for a number num and a bound k
LessThan(num, k) == num.m < k * Pow10(num.e)
GreaterThan(num, k) == num.m > k * Pow10(num.e)

\* Number.prototype.toString of a number the model holds
RECURSIVE IntToText(_)
IntToText(k) ==
    IF k < 10 THEN <<DigitChar[k]>>
    ELSE IntToText(k \div 10) \o <<DigitChar[k % 10]>>

RECURSIVE FractionToText(_, _)
FractionToText(f, e) ==
    IF e = 0 THEN <<>> ELSE FractionToText(f \div 10, e - 1) \o <<DigitChar[f % 10]>>

toString(num) ==
    LET abs == IF num.m < 0 THEN 0 - num.m ELSE num.m
    IN  (IF num.m < 0 THEN <<"-">> ELSE <<>>)
            \o IntToText(abs \div Pow10(num.e))
            \o (IF num.e > 0 THEN <<".">> \o FractionToText(abs % Pow10(num.e), num.e)
                             ELSE <<>>)

\* validateNumber that takes the bounds as exclusive
validateNumber_exclusive(text, mn, mx) ==
    IF text = <<>> \/ text = <<"-">> \/ text = <<".">> THEN NoError
    ELSE LET num == parseFloat(text)
         IN  IF isNaN(num) THEN InvalidNumber
             ELSE IF mn.def /\ ~GreaterThan(num, mn.v) THEN MinimumValueIs(mn.v)
             ELSE IF mx.def /\ ~LessThan(num, mx.v) THEN MaximumValueIs(mx.v)
             ELSE NoError

\* validateNumber
validateNumber(text, mn, mx) ==
    IF text = <<>> \/ text = <<"-">> \/ text = <<".">> THEN NoError
    ELSE LET num == parseFloat(text)
         IN  IF isNaN(num) THEN InvalidNumber
             ELSE IF mn.def /\ LessThan(num, mn.v) THEN MinimumValueIs(mn.v)
             ELSE IF mx.def /\ GreaterThan(num, mx.v) THEN MaximumValueIs(mx.v)
             ELSE NoError

\* decimalRegex.test that uses the decimal pattern in either mode
decimalRegexTest_alwaysDecimal(text, allowDec) ==
    LET body == IF text # <<>> /\ Head(text) = "-" THEN Tail(text) ELSE text
        afterInt == SubSeq(body, Len(DigitPrefix(body)) + 1, Len(body))
        afterPoint == IF afterInt # <<>> /\ Head(afterInt) = "."
                      THEN Tail(afterInt) ELSE afterInt
    IN  Len(DigitPrefix(afterPoint)) = Len(afterPoint)

\* decimalRegex.test: /^-?\d*\.?\d*$/ when allowDecimal, /^-?\d*$/ otherwise,
\* matched from the left (no step of either pattern has a choice)
decimalRegexTest(text, allowDec) ==
    LET body == IF text # <<>> /\ Head(text) = "-" THEN Tail(text) ELSE text
        afterInt == SubSeq(body, Len(DigitPrefix(body)) + 1, Len(body))
        afterPoint == IF afterInt # <<>> /\ Head(afterInt) = "."
                      THEN Tail(afterInt) ELSE afterInt
    IN  IF allowDec THEN Len(DigitPrefix(afterPoint)) = Len(afterPoint)
                    ELSE afterInt = <<>>

\* the first branch of handleChangeText that keeps the error
emptyOrPartial_keepError(text, err) ==
    [internalError |-> err, textCalls |-> <<text>>, valueCalls |-> <<Null>>]

\* the first branch of handleChangeText: setInternalError(undefined),
\* onTextChange(text), onValueChange(null)
emptyOrPartial(text, err) ==
    [internalError |-> NoError, textCalls |-> <<text>>, valueCalls |-> <<Null>>]

\* the argument of onValueChange that ignores the validation error
parsedValue_ignoreError(text, error) ==
    IF text # <<>> /\ text # <<"-">> /\ text # <<".">>
    THEN IF isNaN(parseFloat(text)) THEN Null ELSE parseFloat(text)
    ELSE Null

\* the argument of onValueChange after validation
parsedValue(text, error) ==
    IF error = NoError /\ text # <<>> /\ text # <<"-">> /\ text # <<".">>
    THEN IF isNaN(parseFloat(text)) THEN Null ELSE parseFloat(text)
    ELSE Null

\* handleChangeText: internalError after it, and its onTextChange and
\* onValueChange calls
handleChangeText(text, mn, mx, allowDec, err) ==
    IF text = <<>> \/ text = <<"-">> \/ (allowDec /\ text = <<".">>)
    THEN emptyOrPartial(text, err)
    ELSE IF ~decimalRegexTest(text, allowDec)
    THEN [internalError |-> err, textCalls |-> <<>>, valueCalls |-> <<>>]
    ELSE [internalError |-> validateNumber(text, mn, mx),
          textCalls |-> <<text>>,
          valueCalls |-> <<parsedValue(text, validateNumber(text, mn, mx))>>]

\* the effect on [value, min, max]: internalError after it
validationEffect(val, mn, mx) ==
    IF val # <<>> THEN validateNumber(val, mn, mx) ELSE NoError

\* value of the next render.  The caller "setText" holds the text
\* (onTextChange = setText, value = text); the caller "setAge" is the one of
\* the usage example (onValueChange = setAge, value = age?.toString() || '')
nextValue(who, val, h) ==
    IF who = "setText"
    THEN IF h.textCalls # <<>> THEN h.textCalls[Len(h.textCalls)] ELSE val
    ELSE IF h.valueCalls = <<>> THEN val
         ELSE IF h.valueCalls[Len(h.valueCalls)].t = "null" THEN <<>>
         ELSE toString(h.valueCalls[Len(h.valueCalls)])

\* the texts one keystroke makes of the text on screen
Keystrokes(val) ==
    {Append(val, c) : c \in {d \in NumberChars : Len(val) < MaxTextLen}}
        \cup {SubSeq(val, 1, Len(val) - 1) : k \in {n \in {1} : Len(val) > 0}}

\* a key is pressed in the input; the caller stores what it is given and the
\* component re-renders; the effect runs when value has changed
\* AtomicInputState
InputStates == {"default", "error", "success", "disabled"}

\* the caller's helper texts
HelperTexts == {UNDEFINED, "Enter your age"}

\* finalState in which an internal error overrides the external state
finalState_errorFirst(extState, err) ==
    IF err # NoError THEN "error"
    ELSE IF extState # UNDEFINED THEN extState ELSE "default"

\* finalState: externalState || (internalError ? 'error' : 'default')
finalState(extState, err) ==
    IF extState # UNDEFINED THEN extState
    ELSE IF err # NoError THEN "error" ELSE "default"

\* finalHelperText: internalError || externalHelperText, tagged with which
\* of the two it is
finalHelperText(err, extHelperText) ==
    IF err # NoError THEN [t |-> "internalError", v |-> err]
                     ELSE [t |-> "helperText", v |-> extHelperText]

NumberChangeText(text) ==
    LET h == handleChangeText(text, min, max, allowDecimal, internalError)
        v == nextValue(caller, numberValue, h)
    IN  /\ n_lastOp' = "key"
        /\ n_lastText' = text
        /\ n_prevValue' = numberValue
        /\ n_prevError' = internalError
        /\ n_handlerError' = h.internalError
        /\ n_textCalls' = h.textCalls
        /\ n_valueCalls' = h.valueCalls
        /\ numberValue' = v
        /\ internalError' = IF v # numberValue THEN validationEffect(v, min, max)
                                               ELSE h.internalError
        /\ n_state' = finalState(externalState, internalError')
        /\ n_helperText' = finalHelperText(internalError', externalHelperText)
        /\ UNCHANGED <<min, max, allowDecimal, caller, externalState,
                       externalHelperText>>
        /\ UNCHANGED notNumberVars

\* the values the caller sets on its own
CallerValues == {<<>>} \cup {<<c>> : c \in NumberChars \cap Digits}

\* the caller re-renders the input with another value; the effect runs.
\* No handler has run on this value yet, so the observation starts over.
NumberSetValue(v) ==
    /\ v # numberValue
    /\ n_lastOp' = "set"
    /\ n_lastText' = <<>>
    /\ n_prevValue' = v
    /\ n_prevError' = NoError
    /\ n_handlerError' = NoError
    /\ n_textCalls' = <<>>
    /\ n_valueCalls' = <<>>
    /\ numberValue' = v
    /\ internalError' = validationEffect(v, min, max)
    /\ n_state' = finalState(externalState, internalError')
    /\ n_helperText' = finalHelperText(internalError', externalHelperText)
    /\ UNCHANGED <<min, max, allowDecimal, caller, externalState,
                   externalHelperText>>
    /\ UNCHANGED notNumberVars

NumberTexts == SeqsUpTo(NumberChars, MaxTextLen)

\* the first render, after the effect of the mount has run
\* the first render, the caller's state and helperText being of the given sets
NumberInitWith(states, helperTexts) ==
    /\ caller \in {"setText", "setAge"}
    /\ numberValue \in IF caller = "setText" THEN NumberTexts
                       ELSE {<<>>} \cup {toString(parseFloat(t)) :
                                           t \in {u \in NumberTexts : ~isNaN(parseFloat(u))}}
    /\ min \in MinProps
    /\ max \in MaxProps
    /\ allowDecimal \in BOOLEAN
    /\ internalError = validationEffect(numberValue, min, max)
    /\ n_lastOp = "none"
    /\ n_lastText = <<>>
    /\ n_prevValue = numberValue
    /\ n_prevError = NoError
    /\ n_handlerError = NoError
    /\ n_textCalls = <<>>
    /\ n_valueCalls = <<>>
    /\ externalState \in states
    /\ externalHelperText \in helperTexts
    /\ n_state = finalState(externalState, internalError)
    /\ n_helperText = finalHelperText(internalError, externalHelperText)

\* the caller passes neither state nor helperText
NumberInit == NumberInitWith({UNDEFINED}, {UNDEFINED})

\* the caller types into an age field with bounds 0 and 4, over every state
\* and helperText it can pass
NumberDisplayInit ==
    /\ NumberInitWith({UNDEFINED} \cup InputStates, HelperTexts)
    /\ caller = "setText"
    /\ min = Defined(0)
    /\ max = Defined(4)
    /\ allowDecimal = FALSE

(***************************************************************************)
(* AtomicIcon                                                              *)
(*                                                                         *)
(* LucideIcons is the namespace of the package lucide-react-native, which  *)
(* the component indexes with the name it is given.  Next to the icon      *)
(* components the package exports the helper createLucideIcon and the      *)
(* object icons; both are members of the namespace and neither is a        *)
(* component.                                                              *)
(***************************************************************************)
\* names the component is rendered with: icons, names of no export, and the
\* two exports that are no icons
IconNames ==
    {"Settings", "Heart", "Info", "settings", "NoSuchIcon", "icons", "createLucideIcon"}

\* LucideIcons[name]
LucideIcons ==
    [n \in IconNames |->
        CASE n \in {"Settings", "Heart", "Info"} -> "icon component"
          [] n = "icons" -> "object"
          [] n = "createLucideIcon" -> "function"
          [] OTHER -> "undefined"]

ICON_SIZES == [xs |-> 16, sm |-> 20, md |-> 24, lg |-> 32, xl |-> 40, xxl |-> 48]

IconSizes == {"xs", "sm", "md", "lg", "xl", "xxl"}

\* customSize of the renders
CustomSizes == {Undefined, Defined(0), Defined(32)}

\* one render of AtomicIcon: the element it returns and its console.warn
\* calls.  An object or a function that is no component, used as an
\* element type, makes the render throw.
AtomicIcon(name, size, custom, background, dev) ==
    IF LucideIcons[name] = "undefined"
    THEN [kind |-> "null", iconSize |-> 0, boxSize |-> 0,
          warnings |-> IF dev THEN <<name>> ELSE <<>>]
    ELSE LET iconSize == IF custom.def THEN custom.v ELSE ICON_SIZES[size]
         IN  [kind |-> IF LucideIcons[name] = "icon component" THEN "icon" ELSE "error",
              iconSize |-> iconSize,
              boxSize |-> IF background THEN iconSize + 16 ELSE 0,
              warnings |-> <<>>]

IconInit ==
    /\ iconName \in IconNames
    /\ sizeProp \in IconSizes
    /\ customSize \in CustomSizes
    /\ withBackground \in BOOLEAN
    /\ isDev \in BOOLEAN
    /\ i_output = AtomicIcon(iconName, sizeProp, customSize, withBackground, isDev)

\* the parent re-renders the icon with other props
IconRender(name, size, custom, background) ==
    /\ <<name, size, custom, background>> #
           <<iconName, sizeProp, customSize, withBackground>>
    /\ iconName' = name
    /\ sizeProp' = size
    /\ customSize' = custom
    /\ withBackground' = background
    /\ i_output' = AtomicIcon(name, size, custom, background, isDev)
    /\ UNCHANGED isDev
    /\ UNCHANGED notIconVars

(***************************************************************************)
(* AtomicDatePicker                                                        *)
(*                                                                         *)
(* The native picker reports through onChange(event, selectedDate); the    *)
(* caller is the one of the usage example (onChange = setSelectedDate).    *)
(* Dates are only compared, so they are strings.                           *)
(***************************************************************************)
Platforms == {"ios", "android"}

\* the dates of the model
Dates == {"2024-01-01", "2024-01-02", "2024-01-03"}

\* event.type of DateTimePickerEvent
EventTypes == {"set", "dismissed", "neutralButtonPressed"}

\* handleChange whose Android branch closes the picker only on 'set'
handleChange_androidKeepsOpen(os, type, selectedDate, show) ==
    IF os = "android"
    THEN [showPicker |-> IF type = "set" /\ selectedDate # UNDEFINED THEN FALSE ELSE show,
          calls |-> IF type = "set" /\ selectedDate # UNDEFINED
                    THEN <<selectedDate>> ELSE <<>>]
    ELSE [showPicker |-> IF type = "dismissed" THEN FALSE ELSE show,
          calls |-> IF type = "set" /\ selectedDate # UNDEFINED
                    THEN <<selectedDate>> ELSE <<>>]

\* handleChange: showPicker after it, and its onChange calls
handleChange(os, type, selectedDate, show) ==
    IF os = "android"
    THEN [showPicker |-> FALSE,
          calls |-> IF type = "set" /\ selectedDate # UNDEFINED
                    THEN <<selectedDate>> ELSE <<>>]
    ELSE [showPicker |-> IF type = "dismissed" THEN FALSE ELSE show,
          calls |-> IF type = "set" /\ selectedDate # UNDEFINED
                    THEN <<selectedDate>> ELSE <<>>]

\* handleOpen: showPicker after it
handleOpen(os) == TRUE

\* value of the next render: the caller stores the last date it is given
storedDate(val, calls) == IF calls = <<>> THEN val ELSE calls[Len(calls)]

DateInit ==
    /\ platform \in Platforms
    /\ dateValue \in Dates \cup {NULL}
    /\ dateDisabled \in BOOLEAN
    /\ showPicker = FALSE
    /\ d_lastOp = "none"
    /\ d_lastType = "dismissed"
    /\ d_lastDate = UNDEFINED
    /\ d_calls = <<>>
    /\ d_prevShow = FALSE
    /\ d_valueAtOpen = dateValue

\* the button is pressed (a disabled TouchableOpacity delivers no press)
DateOpen ==
    /\ ~dateDisabled
    /\ showPicker' = handleOpen(platform)
    /\ d_lastOp' = "open"
    /\ d_lastType' = "dismissed"
    /\ d_lastDate' = UNDEFINED
    /\ d_calls' = <<>>
    /\ d_prevShow' = showPicker
    /\ d_valueAtOpen' = IF showPicker THEN d_valueAtOpen ELSE dateValue
    /\ UNCHANGED <<platform, dateValue, dateDisabled>>
    /\ UNCHANGED notDateVars

\* the rendered DateTimePicker reports an event: the wheel or the dialog
\* set a date, or the picker was dismissed; the caller stores the date it
\* is given and the component re-renders
DatePickerEvent(type, selectedDate) ==
    /\ showPicker
    /\ showPicker' = handleChange(platform, type, selectedDate, showPicker).showPicker
    /\ d_calls' = handleChange(platform, type, selectedDate, showPicker).calls
    /\ dateValue' = storedDate(dateValue, d_calls')
    /\ d_lastOp' = "event"
    /\ d_lastType' = type
    /\ d_lastDate' = selectedDate
    /\ d_prevShow' = showPicker
    /\ UNCHANGED <<platform, dateDisabled, d_valueAtOpen>>
    /\ UNCHANGED notDateVars

\* Done, a press on the backdrop, or onRequestClose of the iOS sheet: each
\* is setShowPicker(false)
DateSheetClose(how) ==
    /\ platform = "ios"
    /\ showPicker
    /\ showPicker' = FALSE
    /\ d_lastOp' = how
    /\ d_lastType' = "dismissed"
    /\ d_lastDate' = UNDEFINED
    /\ d_calls' = <<>>
    /\ d_prevShow' = showPicker
    /\ UNCHANGED <<platform, dateValue, dateDisabled, d_valueAtOpen>>
    /\ UNCHANGED notDateVars

DateIdle ==
    /\ platform = "ios" /\ dateValue = NULL /\ dateDisabled = TRUE
    /\ showPicker = FALSE /\ d_lastOp = "none" /\ d_lastType = "dismissed"
    /\ d_lastDate = UNDEFINED /\ d_calls = <<>> /\ d_prevShow = FALSE
    /\ d_valueAtOpen = NULL

(***************************************************************************)
(* The pressable controls: AtomicButton, AtomicCard, AtomicChip and        *)
(* AtomicTouchable                                                         *)
(*                                                                         *)
(* A gesture reaches the handler the component attached for it, if any.    *)
(* The native element is not trusted to drop a gesture because of its own  *)
(* disabled prop: what is modelled is what the component attaches.         *)
(***************************************************************************)
ControlKinds == {"AtomicButton", "AtomicCard", "AtomicChip", "AtomicTouchable"}

Gestures == {"press", "pressIn", "pressOut", "longPress"}

\* the Pressable prop a gesture is delivered to
handlerOf(gesture) ==
    CASE gesture = "press" -> "onPress"
      [] gesture = "pressIn" -> "onPressIn"
      [] gesture = "pressOut" -> "onPressOut"
      [] gesture = "longPress" -> "onLongPress"

\* AtomicButton.handlePress: the callbacks it calls
AtomicButton_handlePress(dis) ==
    IF ~dis THEN <<"onPress">> ELSE <<>>

\* AtomicCard.handlePress: the callbacks it calls
AtomicCard_handlePress(hasOnPress, dis) ==
    IF hasOnPress /\ ~dis THEN <<"onPress">> ELSE <<>>

\* AtomicButton: TouchableOpacity onPress={handlePress}
AtomicButton(gesture, dis) ==
    IF gesture = "press" THEN AtomicButton_handlePress(dis) ELSE <<>>

\* AtomicCard: a Pressable around the card only if onPress && !disabled
AtomicCard(gesture, hasOnPress, dis) ==
    IF hasOnPress /\ ~dis /\ gesture = "press"
    THEN AtomicCard_handlePress(hasOnPress, dis)
    ELSE <<>>

\* AtomicChip: a TouchableOpacity around the chip only if
\* clickable && onPress && !disabled
AtomicChip(gesture, clickable, hasOnPress, dis) ==
    IF clickable /\ hasOnPress /\ ~dis /\ gesture = "press"
    THEN <<"onPress">>
    ELSE <<>>

\* AtomicTouchable that hands its callbacks to Pressable whatever disabled is
AtomicTouchable_alwaysAttached(gesture, hasCallbacks, dis) ==
    IF hasCallbacks THEN <<handlerOf(gesture)>> ELSE <<>>

\* AtomicTouchable: each Pressable handler is isDisabled ? undefined : prop
AtomicTouchable(gesture, hasCallbacks, dis) ==
    IF ~dis /\ hasCallbacks THEN <<handlerOf(gesture)>> ELSE <<>>

\* the callbacks a gesture on the rendered control invokes
controlCalls(kind, gesture, clickable, hasCallbacks, dis) ==
    CASE kind = "AtomicButton" -> AtomicButton(gesture, dis)
      [] kind = "AtomicCard" -> AtomicCard(gesture, hasCallbacks, dis)
      [] kind = "AtomicChip" ->
            AtomicChip(gesture, clickable, hasCallbacks, dis)
      [] kind = "AtomicTouchable" ->
            AtomicTouchable(gesture, hasCallbacks, dis)

ControlInit ==
    /\ controlKind \in ControlKinds
    /\ controlDisabled \in BOOLEAN
    /\ controlClickable \in BOOLEAN
    /\ controlCallbacks \in BOOLEAN
    /\ c_lastGesture = "none"
    /\ c_calls = <<>>

\* a gesture on the control
ControlGesture(gesture) ==
    /\ c_lastGesture' = gesture
    /\ c_calls' = controlCalls(controlKind, gesture, controlClickable,
                               controlCallbacks, controlDisabled)
    /\ UNCHANGED <<controlKind, controlDisabled, controlClickable,
                   controlCallbacks>>
    /\ UNCHANGED notControlVars

\* the caller re-renders the control with another disabled prop
ControlRender(dis) ==
    /\ dis # controlDisabled
    /\ controlDisabled' = dis
    /\ c_lastGesture' = "none"
    /\ c_calls' = <<>>
    /\ UNCHANGED <<controlKind, controlClickable, controlCallbacks>>
    /\ UNCHANGED notControlVars

ControlIdle ==
    /\ controlKind = "AtomicButton" /\ controlDisabled = TRUE
    /\ controlClickable = FALSE /\ controlCallbacks = FALSE
    /\ c_lastGesture = "none" /\ c_calls = <<>>

(***************************************************************************)
(* AtomicBadge with a number as children                                   *)
(***************************************************************************)
BadgeCounts == -MaxBadge..MaxBadge

BadgeMaxes == {Undefined} \cup {Defined(m) : m \in -1..MaxBadge}

DecimalDigits == <<"0", "1", "2", "3", "4", "5", "6", "7", "8", "9">>

\* the decimal digits of a natural number
RECURSIVE naturalText(_)
naturalText(n) ==
    IF n < 10 THEN <<DecimalDigits[n + 1]>>
    ELSE Append(naturalText(n \div 10), DecimalDigits[(n % 10) + 1])

\* Number.prototype.toString of an integer
integerToString(n) ==
    IF n < 0 THEN <<"-">> \o naturalText(-n) ELSE naturalText(n)

\* JavaScript truthiness of an optional number: undefined and 0 are falsy
truthyNumber(p) == p.def /\ p.v # 0

\* displayValue for a number: `${max}+` if (max && children > max),
\* children.toString() otherwise
displayValue(children, mx) ==
    IF truthyNumber(mx) /\ children > mx.v
    THEN integerToString(mx.v) \o <<"+">>
    ELSE integerToString(children)

\* the element AtomicBadge returns for a number
AtomicBadge(children, mx, zero) ==
    IF children = 0 /\ ~zero
    THEN [kind |-> "null", text |-> <<>>]
    ELSE [kind |-> "badge", text |-> displayValue(children, mx)]

BadgeInit ==
    /\ badgeChildren \in BadgeCounts
    /\ badgeMax \in BadgeMaxes
    /\ showZero \in BOOLEAN
    /\ b_output = AtomicBadge(badgeChildren, badgeMax, showZero)

\* the caller re-renders the badge with another count
BadgeRender(children) ==
    /\ children # badgeChildren
    /\ badgeChildren' = children
    /\ b_output' = AtomicBadge(children, badgeMax, showZero)
    /\ UNCHANGED <<badgeMax, showZero>>
    /\ UNCHANGED notBadgeVars

BadgeIdle ==
    /\ badgeChildren = 0 /\ badgeMax = Undefined /\ showZero = FALSE
    /\ b_output = AtomicBadge(0, Undefined, FALSE)

(***************************************************************************)
(* AtomicProgress                                                          *)
(*                                                                         *)
(* value is a number; it is modelled in halves, so that 201 is 100.5.      *)
(***************************************************************************)
ProgressValues == (-2 * MaxExcess)..(2 * (100 + MaxExcess))

\* Math.min and Math.max
MathMin(a, b) == IF a < b THEN a ELSE b
MathMax(a, b) == IF a > b THEN a ELSE b

\* Math.round of a number given in halves: the nearest integer, a half
\* going up
MathRound(halves) == (halves + 1) \div 2

\* clampedValue without the lower limit
clampedValue_noFloor(val) == MathMin(200, val)

\* clampedValue = Math.max(0, Math.min(100, value)), in halves
clampedValue(val) == MathMax(0, MathMin(200, val))

\* what AtomicProgress renders: the width of the fill (progressWidth, in
\* halves of a percent) and the text, if one is shown
AtomicProgress(val, percentage, valueText) ==
    [width |-> clampedValue(val),
     textShown |-> (percentage \/ valueText),
     number |-> MathRound(clampedValue(val)),
     suffix |-> IF percentage THEN "%" ELSE ""]

ProgressInit ==
    /\ progressValue \in ProgressValues
    /\ showPercentage \in BOOLEAN
    /\ showValue \in BOOLEAN
    /\ g_output = AtomicProgress(progressValue, showPercentage, showValue)

\* the caller re-renders the bar with another value
ProgressRender(val) ==
    /\ val # progressValue
    /\ progressValue' = val
    /\ g_output' = AtomicProgress(val, showPercentage, showValue)
    /\ UNCHANGED <<showPercentage, showValue>>
    /\ UNCHANGED notProgressVars

ProgressIdle ==
    /\ progressValue = 0 /\ showPercentage = FALSE /\ showValue = FALSE
    /\ g_output = AtomicProgress(0, FALSE, FALSE)

\* the components added after the first five are not on screen
RestIdle == DateIdle /\ ControlIdle /\ BadgeIdle /\ ProgressIdle

(***************************************************************************)
(* Specifications                                                          *)
(***************************************************************************)
FilterIdle ==
    /\ chipOptions = <<>> /\ selectedIds = <<>> /\ multiSelect = TRUE
    /\ showClearAll = TRUE /\ f_lastOp = "none" /\ f_lastId = NONE
    /\ f_prev = <<>> /\ f_emitted = <<>> /\ f_calls = <<>>
    /\ f_propAfter = <<>> /\ f_initValid = TRUE /\ f_startEmpty = TRUE
    /\ f_cleared = FALSE /\ f_odd = {} /\ f_firstId = NONE

SortIdle ==
    /\ sortOptions = <<>> /\ selectedId = NULL /\ sortDirection = "asc"
    /\ s_lastId = NONE /\ s_prevId = NULL /\ s_prevDir = "asc"
    /\ s_emitted = [id |-> NONE, direction |-> "asc"] /\ s_calls = <<>>
    /\ s_lastId2 = NONE /\ s_prevId2 = NULL /\ s_prevDir2 = "asc"

PickerIdle ==
    /\ options = <<>> /\ value = Str("") /\ multiple = FALSE
    /\ disabled = TRUE /\ searchable = FALSE /\ clearable = FALSE
    /\ autoClose = TRUE /\ modalVisible = FALSE /\ searchQuery = <<>>
    /\ PickerObservedNothing

NumberIdle ==
    /\ numberValue = <<>> /\ min = Undefined /\ max = Undefined
    /\ allowDecimal = FALSE /\ caller = "setText" /\ internalError = NoError
    /\ n_lastOp = "none" /\ n_lastText = <<>> /\ n_prevValue = <<>>
    /\ n_prevError = NoError /\ n_handlerError = NoError
    /\ n_textCalls = <<>> /\ n_valueCalls = <<>>
    /\ externalState = UNDEFINED /\ externalHelperText = UNDEFINED
    /\ n_state = "default"
    /\ n_helperText = [t |-> "helperText", v |-> UNDEFINED]

IconIdle ==
    /\ iconName = "Settings" /\ sizeProp = "md" /\ customSize = Undefined
    /\ withBackground = FALSE /\ isDev = FALSE
    /\ i_output = AtomicIcon("Settings", "md", Undefined, FALSE, FALSE)

\* the first five components are not on screen
CoreIdle == FilterIdle /\ SortIdle /\ PickerIdle /\ NumberIdle /\ IconIdle

\* one of AtomicFilter, AtomicSort and AtomicPicker (with plain options) on
\* screen, over all its props
Init ==
    \/ FilterInit /\ SortIdle /\ PickerIdle /\ NumberIdle /\ IconIdle /\ RestIdle
    \/ SortInit /\ FilterIdle /\ PickerIdle /\ NumberIdle /\ IconIdle /\ RestIdle
    \/ PickerInit /\ FilterIdle /\ SortIdle /\ NumberIdle /\ IconIdle /\ RestIdle

Next ==
    \/ \E optionId \in FilterIds : FilterPress(optionId)
    \/ FilterClearAll
    \/ \E optionId \in SortIds : SortPress(optionId)
    \/ PickerOpen
    \/ PickerClose
    \/ \E query \in Edits(searchQuery) : PickerSearch(query)
    \/ \E i \in 1..Len(options) : PickerOptionPress(options[i])
    \/ \E i \in 1..Len(options) : PickerChipPress(options[i])
    \/ PickerClear

Spec == Init /\ [][Next]_vars

\* the searchable AtomicPicker, over all option texts and queries
SpecPickerSearchInit ==
    PickerSearchInit /\ FilterIdle /\ SortIdle /\ NumberIdle /\ IconIdle /\ RestIdle
SpecPickerSearchNext ==
    \/ PickerOpen
    \/ PickerClose
    \/ \E query \in Edits(searchQuery) : PickerSearch(query)
SpecPickerSearch == SpecPickerSearchInit /\ [][SpecPickerSearchNext]_vars

\* AtomicFilter on screen, with chips pressed one per render or two within
\* one render
SpecFilterRapidInit ==
    FilterInit /\ SortIdle /\ PickerIdle /\ NumberIdle /\ IconIdle /\ RestIdle
SpecFilterRapidNext ==
    \/ \E optionId \in FilterIds : FilterPress(optionId)
    \/ \E firstId, secondId \in FilterIds : FilterRapidPress(firstId, secondId)
    \/ FilterClearAll
SpecFilterRapid == SpecFilterRapidInit /\ [][SpecFilterRapidNext]_vars

\* AtomicNumberInput on screen, over all its props and both callers
SpecNumberInputInit ==
    NumberInit /\ FilterIdle /\ SortIdle /\ PickerIdle /\ IconIdle /\ RestIdle
SpecNumberInputNext ==
    \/ \E text \in Keystrokes(numberValue) : NumberChangeText(text)
    \/ \E v \in CallerValues : NumberSetValue(v)
SpecNumberInput == SpecNumberInputInit /\ [][SpecNumberInputNext]_vars

\* AtomicNumberInput on screen, over the state and helperText of the caller
SpecNumberDisplayInit ==
    NumberDisplayInit /\ FilterIdle /\ SortIdle /\ PickerIdle /\ IconIdle /\ RestIdle
SpecNumberDisplayNext ==
    \/ \E text \in Keystrokes(numberValue) : NumberChangeText(text)
    \/ \E v \in CallerValues : NumberSetValue(v)
SpecNumberDisplay == SpecNumberDisplayInit /\ [][SpecNumberDisplayNext]_vars

\* AtomicIcon on screen, over its name, sizes and background, in a
\* development build and in a production build
SpecIconInit ==
    IconInit /\ FilterIdle /\ SortIdle /\ PickerIdle /\ NumberIdle /\ RestIdle
SpecIconNext ==
    \E name \in IconNames, size \in IconSizes, custom \in CustomSizes,
       background \in BOOLEAN : IconRender(name, size, custom, background)
SpecIcon == SpecIconInit /\ [][SpecIconNext]_vars

\* AtomicDatePicker on screen, on either platform
SpecDatePickerInit ==
    DateInit /\ CoreIdle /\ ControlIdle /\ BadgeIdle /\ ProgressIdle
SpecDatePickerNext ==
    \/ DateOpen
    \/ \E type \in EventTypes, selectedDate \in Dates \cup {UNDEFINED} :
          DatePickerEvent(type, selectedDate)
    \/ \E how \in {"done", "backdrop", "requestClose"} : DateSheetClose(how)
SpecDatePicker == SpecDatePickerInit /\ [][SpecDatePickerNext]_vars

\* one of the pressable controls on screen, over its props
SpecControlInit ==
    ControlInit /\ CoreIdle /\ DateIdle /\ BadgeIdle /\ ProgressIdle
SpecControlNext ==
    \/ \E gesture \in Gestures : ControlGesture(gesture)
    \/ \E dis \in BOOLEAN : ControlRender(dis)
SpecControl == SpecControlInit /\ [][SpecControlNext]_vars

\* AtomicBadge on screen with a number, over its max and showZero
SpecBadgeInit ==
    BadgeInit /\ CoreIdle /\ DateIdle /\ ControlIdle /\ ProgressIdle
SpecBadgeNext == \E children \in BadgeCounts : BadgeRender(children)
SpecBadge == SpecBadgeInit /\ [][SpecBadgeNext]_vars

\* AtomicProgress on screen, over its value and text flags
SpecProgressInit ==
    ProgressInit /\ CoreIdle /\ DateIdle /\ ControlIdle /\ BadgeIdle
SpecProgressNext == \E val \in ProgressValues : ProgressRender(val)
SpecProgress == SpecProgressInit /\ [][SpecProgressNext]_vars

(***************************************************************************)
(* Properties                                                              *)
(***************************************************************************)
\* out is prev with its one occurrence of x removed, the rest in place
IsRemovalOf(prev, x, out) ==
    \E k \in 1..Len(prev) :
        /\ prev[k] = x
        /\ Len(out) = Len(prev) - 1
        /\ \A i \in 1..Len(out) : out[i] = IF i < k THEN prev[i] ELSE prev[i + 1]

\* out is prev with x added at the end
IsAppendOf(prev, x, out) ==
    /\ Len(out) = Len(prev) + 1
    /\ \A i \in 1..Len(prev) : out[i] = prev[i]
    /\ out[Len(out)] = x

\* out is prev toggled at x
IsToggleOf(prev, x, out) ==
    IF x \in Range(prev) THEN IsRemovalOf(prev, x, out) ELSE IsAppendOf(prev, x, out)

\* C1: a press in multi-select mode on a selection of distinct ids emits the
\* selection without the pressed id (the others in their order) when it was
\* selected, and the selection with the pressed id at the end when it was
\* not; in AtomicFilter and in AtomicPicker with multiple = true.
C1_MultiToggleStep ==
    /\ (f_lastOp = "press" /\ multiSelect /\ IsDistinct(f_prev))
          => IsToggleOf(f_prev, f_lastId, f_emitted)
    /\ (p_lastOp \in {"option", "chip"} /\ multiple /\ p_emitted # NoCall
            /\ IsDistinct(selectedValues(p_prevValue, multiple)))
          => /\ p_emitted.t = "array"
             /\ IsToggleOf(selectedValues(p_prevValue, multiple), Str(p_lastArg),
                           p_emitted.v)

\* C1 witness: the filter's toggle of 'a' on ['a','c'] has emitted ['c']
C1_Witness ==
    /\ f_lastOp = "press" /\ multiSelect /\ f_startEmpty
    /\ f_prev = <<"a", "c">> /\ f_lastId = "a" /\ f_emitted = <<"c">>

\* C2: from the empty selection, in multi-select mode and with presses only,
\* the selection as a set is the set of ids pressed an odd number of times.
C2_OddParity ==
    (multiSelect /\ f_startEmpty /\ ~f_cleared) => Range(selectedIds) = f_odd

\* C2 witness: 'a' has been pressed twice and 'c' once
C2_Witness ==
    /\ multiSelect /\ f_startEmpty /\ ~f_cleared
    /\ f_lastOp = "press" /\ f_lastId = "a" /\ f_prev = <<"a", "c">>
    /\ f_odd = {"c"} /\ selectedIds = <<"c">>

\* C3 as stated: a press in single-select mode (on a selection of distinct
\* ids) emits [] when the pressed id is the sole current selection and [id]
\* for any other id.
C3_SoleSelectionOnly ==
    (f_lastOp = "press" /\ ~multiSelect /\ IsDistinct(f_prev))
        => f_emitted = IF f_prev = <<f_lastId>> THEN <<>> ELSE <<f_lastId>>

\* C3 as amended: a press in single-select mode emits [] when the pressed id
\* is in the current selection (its sole element or one of several) and [id]
\* when it is not, so pressing B and then B again leaves [].
C3_SingleStep ==
    (f_lastOp = "press" /\ ~multiSelect)
        => /\ (f_lastId \in Range(f_prev) => f_emitted = <<>> /\ selectedIds = <<>>)
           /\ (f_lastId \notin Range(f_prev)
                  => f_emitted = <<f_lastId>> /\ selectedIds = <<f_lastId>>)
           /\ (f_prev = <<f_lastId>> => selectedIds = <<>>)

\* C3 witness: in single-select mode an id of a selection of several ids was
\* pressed and the empty selection emitted
C3_Witness ==
    /\ f_lastOp = "press" /\ ~multiSelect
    /\ f_prev = <<"a", "b">> /\ f_lastId = "a" /\ f_emitted = <<>>

\* C4: in single-select mode every emitted selection has at most one id,
\* whatever the selection before it, so once a handler has run the caller's
\* selection has at most one id; the picker's normalised single selection
\* has at most one value.
C4_SingleCardinality ==
    /\ (~multiSelect /\ f_lastOp # "none")
          => /\ Len(f_emitted) <= 1
             /\ Len(selectedIds) <= 1
             /\ Cardinality(Range(selectedIds)) <= 1
    /\ ~multiple => Len(selectedValues(value, multiple)) <= 1

\* C4 witness: a press on a selection of three ids has left one id or none
C4_Witness ==
    /\ ~multiSelect /\ f_lastOp = "press" /\ Len(f_prev) = MaxSelLen
    /\ Cardinality(Range(f_prev)) > 1 /\ f_lastId \notin Range(f_prev)
    /\ Len(selectedIds) = 1

\* C5 as stated: in the single-select picker, selecting the option whose
\* value is the current value clears the selection, and selecting another
\* option emits that option's value.
C5_PickerTogglesOff ==
    (p_lastOp = "option" /\ ~multiple /\ p_emitted # NoCall)
        => IF StrictEq(p_prevValue, Str(p_lastArg))
           THEN selectedValues(p_emitted, multiple) = <<>>
           ELSE p_emitted = Str(p_lastArg)

\* C5 as amended: in the single-select picker, selecting an enabled option
\* emits that option's value whether or not it is the current value; the
\* selection afterwards is that value, it is never toggled off.
C5_PickerReplaces ==
    (p_lastOp = "option" /\ ~multiple /\ p_emitted # NoCall)
        => /\ p_emitted = Str(p_lastArg)
           /\ value = Str(p_lastArg)
           /\ selectedValues(value, multiple) = <<Str(p_lastArg)>>

\* C5 witness: the current value was selected again and is still selected
C5_Witness ==
    /\ p_lastOp = "option" /\ ~multiple /\ p_emitted # NoCall
    /\ p_prevValue = Str("a") /\ p_lastArg = "a" /\ value = Str("a")

\* asc <-> desc
Flipped(dir) == CASE dir = "asc" -> "desc" [] dir = "desc" -> "asc"

\* C6: a sort press emits the pressed id, with the direction flipped when
\* the id was the selected one and with 'asc' otherwise; the selected id is
\* never null after a press.
C6_SortStep ==
    s_lastId # NONE
        => /\ s_emitted.id = s_lastId
           /\ s_emitted.direction =
                 IF s_prevId = s_lastId THEN Flipped(s_prevDir) ELSE "asc"
           /\ selectedId = s_lastId
           /\ selectedId # NULL
           /\ sortDirection = s_emitted.direction

\* C6 witness: null -name-> (name, asc) -name-> (name, desc) -date-> (date, asc)
C6_Witness ==
    /\ s_prevId2 = "name" /\ s_prevDir2 = "asc" /\ s_lastId2 = "name"
    /\ s_prevId = "name" /\ s_prevDir = "desc" /\ s_lastId = "date"
    /\ selectedId = "date" /\ sortDirection = "asc"

\* C7 as stated: pressing an id twice in a row gives back the direction of
\* the state before the two presses.
C7_TwoPressesRestore ==
    (s_lastId # NONE /\ s_lastId2 = s_lastId) => sortDirection = s_prevDir2

\* C7 as amended: pressing twice in a row the id that was selected gives
\* back the direction before the two presses; pressing twice an id that was
\* not selected gives 'desc'.
C7_TwoPressesOfSelected ==
    (s_lastId # NONE /\ s_lastId2 = s_lastId)
        => IF s_prevId2 = s_lastId
           THEN sortDirection = s_prevDir2
           ELSE sortDirection = "desc"

\* C7 witness: the selected id of a descending sort was pressed twice
C7_Witness ==
    /\ s_lastId = "name" /\ s_lastId2 = "name" /\ s_prevId2 = "name"
    /\ s_prevDir2 = "desc" /\ s_prevDir = "asc" /\ sortDirection = "desc"

\* C8: clear emits the empty selection from every selection: [] in the
\* filter, [] (multiple) or '' (single) in the picker, which normalises to
\* the empty selection; clearing the cleared selection emits the same.
C8_ClearEmpties ==
    /\ handleClearAll(selectedIds) = <<>>
    /\ selectedValues(handleClear(multiple), multiple) = <<>>
    /\ f_lastOp = "clear"
          => /\ f_emitted = <<>>
             /\ selectedIds = <<>>
             /\ handleClearAll(selectedIds) = f_emitted
    /\ p_lastOp = "clear"
          => /\ p_emitted = IF multiple THEN Arr(<<>>) ELSE Str("")
             /\ value = p_emitted
             /\ selectedValues(value, multiple) = <<>>
             /\ handleClear(multiple) = p_emitted

\* C8 witness: the single-select picker's selection has been cleared
C8_Witness ==
    /\ p_lastOp = "clear" /\ ~multiple /\ p_prevValue = Str("a")
    /\ value = Str("")

\* a query of white space only (or of nothing)
IsBlank(q) == \A i \in 1..Len(q) : q[i] \in WhiteSpace

\* C9: with an empty or white-space-only search query the filtered list is
\* the option list: same options, same order, same length.
C9_BlankQueryKeepsAll ==
    IsBlank(searchQuery)
        => /\ filteredOptions(options, searchQuery) = options
           /\ Len(filteredOptions(options, searchQuery)) = Len(options)

\* C9 witness: white space was typed over a list of two options
C9_Witness ==
    /\ p_lastOp = "search" /\ modalVisible
    /\ searchQuery = <<" ", " ">> /\ Len(options) = Cardinality(PickerValues)

\* two characters that are the same letter
SameLetter(c, d) == c = d \/ {c, d} \in {{"a", "A"}, {"b", "B"}}

\* text contains q, ignoring letter case
ContainsIgnoringCase(text, q) ==
    \E off \in 0..(Len(text) - Len(q)) :
        \A j \in 1..Len(q) : SameLetter(text[off + j], q[j])

\* the positions of the options whose label, or description when present,
\* contains q
MatchingPositions(opts, q) ==
    {k \in 1..Len(opts) :
        \/ ContainsIgnoringCase(opts[k].label, q)
        \/ (opts[k].hasDescription /\ ContainsIgnoringCase(opts[k].description, q))}

\* out lists the options of opts at the positions of M, in their order
IsSublistAt(out, opts, M) ==
    /\ Len(out) = Cardinality(M)
    /\ \E f \in [1..Len(out) -> M] :
          /\ \A i, j \in 1..Len(out) : i < j => f[i] < f[j]
          /\ \A i \in 1..Len(out) : out[i] = opts[f[i]]

\* C10: with a query that is not blank the filtered list is the options, in
\* their order and each once, whose label or description contains the query
\* ignoring letter case.
C10_FilterIsMatchingSublist ==
    ~IsBlank(searchQuery)
        => IsSublistAt(filteredOptions(options, searchQuery), options,
                       MatchingPositions(options, searchQuery))

\* C10 witness: the query 'A' drops the option 'b' and keeps the option 'ba'
C10_Witness ==
    /\ p_lastOp = "search" /\ modalVisible /\ searchQuery = <<"A">>
    /\ Len(options) = 2
    /\ options[1].label = <<"b">> /\ ~options[1].hasDescription
    /\ options[2].label = <<"b", "a">>
    /\ filteredOptions(options, searchQuery) = <<options[2]>>

\* C11: the search query is reset on open and on close: whenever the modal
\* is not visible the query is empty, and right after a press of the picker
\* button the query is empty.
C11_QueryResetOnOpenClose ==
    /\ ~modalVisible => searchQuery = <<>>
    /\ p_lastOp = "open" => searchQuery = <<>>

\* C11 witness: the modal was closed over a typed query
C11_Witness ==
    /\ p_lastOp = "close" /\ p_prevModal /\ p_queryDropped
    /\ ~modalVisible /\ searchQuery = <<>>

\* the texts '' and '-', and '.' when decimals are allowed
IsProvisional(text, allowDec) ==
    text \in {<<>>, <<"-">>} \/ (allowDec /\ text = <<".">>)

\* C12: a keystroke that leaves '' or '-', or '.' when allowDecimal is set,
\* clears the internal error, reports the text to onTextChange and reports
\* null to onValueChange.
C12_ProvisionalText ==
    (n_lastOp = "key" /\ IsProvisional(n_lastText, allowDecimal))
        => /\ n_handlerError = NoError
           /\ internalError = NoError
           /\ n_textCalls = <<n_lastText>>
           /\ n_valueCalls = <<Null>>

\* C12 witness: the digit of '-5' was deleted, under the error of min 0
C12_Witness ==
    /\ n_lastOp = "key" /\ n_lastText = <<"-">> /\ n_prevValue = <<"-", "5">>
    /\ n_prevError = MinimumValueIs(0) /\ internalError = NoError
    /\ n_valueCalls = <<Null>>

\* an optional '-' followed by one or more digits
IsIntegerText(text) ==
    LET body == IF text # <<>> /\ text[1] = "-" THEN Tail(text) ELSE text
    IN  body # <<>> /\ \A i \in 1..Len(body) : body[i] \in Digits

\* the integer an integer text writes
IntegerOf(text) ==
    IF text[1] = "-" THEN 0 - DigitsValue(Tail(text)) ELSE DigitsValue(text)

\* C13: for an integer text and bounds min and max, the handler sets the
\* error 'Minimum value is <min>' when the number is below min, 'Maximum
\* value is <max>' when it is above max, and no error when it is within
\* the bounds, in which case onValueChange is given the number.
C13_IntegerBounds ==
    (n_lastOp = "key" /\ IsIntegerText(n_lastText) /\ min.def /\ max.def)
        => /\ IntegerOf(n_lastText) < min.v
                => n_handlerError = MinimumValueIs(min.v)
           /\ IntegerOf(n_lastText) > max.v
                => n_handlerError = MaximumValueIs(max.v)
           /\ (min.v <= IntegerOf(n_lastText) /\ IntegerOf(n_lastText) <= max.v)
                => /\ n_handlerError = NoError
                   /\ n_valueCalls = <<Num(IntegerOf(n_lastText), 0)>>

\* C13 witness: '200' was typed with min 0 and max 150
C13_Witness ==
    /\ n_lastOp = "key" /\ n_lastText = <<"2", "0", "0">>
    /\ min = Defined(0) /\ max = Defined(150)
    /\ n_handlerError = MaximumValueIs(150)

\* digits, with at most one point among them when decimals are allowed
IsUnsignedFormat(u, allowDec) ==
    /\ \A i \in 1..Len(u) : u[i] \in Digits \/ (allowDec /\ u[i] = ".")
    /\ Cardinality({i \in 1..Len(u) : u[i] = "."}) <= 1

\* the format of the gate: an optional '-', then the unsigned format
MatchesFormat(text, allowDec) ==
    \/ IsUnsignedFormat(text, allowDec)
    \/ (text # <<>> /\ text[1] = "-" /\ IsUnsignedFormat(Tail(text), allowDec))

\* C14: a keystroke whose text does not match the format of the gate is
\* not applied: neither callback is called, and the internal error and the
\* value stay as they were.
C14_RejectedKeystroke ==
    (n_lastOp = "key" /\ ~MatchesFormat(n_lastText, allowDecimal))
        => /\ n_textCalls = <<>>
           /\ n_valueCalls = <<>>
           /\ n_handlerError = n_prevError
           /\ internalError = n_prevError
           /\ numberValue = n_prevValue

\* C14 witness: a point was typed after '-5' in integer mode, under the
\* error of min 0
C14_Witness ==
    /\ n_lastOp = "key" /\ ~allowDecimal /\ n_lastText = <<"-", "5", ".">>
    /\ n_prevError = MinimumValueIs(0) /\ internalError = MinimumValueIs(0)
    /\ n_textCalls = <<>> /\ numberValue = <<"-", "5">>

\* C15: a keystroke whose text matches the format of the gate calls
\* onTextChange once, with the text, and onValueChange once; onValueChange
\* is given the parsed number when the text is not provisional and the
\* handler found no error, and null otherwise.
C15_CallbacksOnce ==
    (n_lastOp = "key" /\ MatchesFormat(n_lastText, allowDecimal))
        => /\ n_textCalls = <<n_lastText>>
           /\ Len(n_valueCalls) = 1
           /\ IF ~IsProvisional(n_lastText, allowDecimal) /\ n_handlerError = NoError
              THEN n_valueCalls[1] = parseFloat(n_lastText) /\ n_valueCalls[1].t = "number"
              ELSE n_valueCalls[1] = Null

\* C15 witness: '2.5' was typed in decimal mode
C15_Witness ==
    /\ n_lastOp = "key" /\ allowDecimal /\ n_lastText = <<"2", ".", "5">>
    /\ n_textCalls = <<n_lastText>> /\ n_valueCalls = <<Num(25, 1)>>

\* C16: after every keystroke and every value the caller sets, once the
\* component has re-rendered and its effect has run, the error shown is
\* the validation result of the value on screen.
C16_ErrorMatchesValue ==
    internalError = validateNumber(numberValue, min, max)

\* the option values a picker value selects: the elements of an array, the
\* string itself unless it is ''
SelectedIn(x) ==
    IF x.t = "array" THEN {x.v[i].v : i \in 1..Len(x.v)}
    ELSE IF x.v = "" THEN {} ELSE {x.v}

\* C17: with a fixed option list and a first selection made of option ids
\* only, every selection emitted by the filter or by the picker, in either
\* mode, is made of option ids only.
C17_EmittedWithinOptions ==
    /\ f_initValid
         => \A k \in 1..Len(f_calls) :
                Range(f_calls[k]) \subseteq Range(chipOptions)
    /\ p_initValid
         => \A k \in 1..Len(p_calls) :
                SelectedIn(p_calls[k]) \subseteq {options[j].value : j \in 1..Len(options)}

\* C17 witness: a second option was added to a multi-select picker whose
\* list lacks none of the selected values
C17_Witness ==
    /\ p_initValid /\ multiple /\ p_lastOp = "option"
    /\ Len(p_calls) = 1 /\ SelectedIn(p_calls[1]) = PickerValues
    /\ p_prevValue.t = "array" /\ Len(p_prevValue.v) = 1

\* the option row of the last press was not disabled
PressedRowEnabled ==
    \E j \in 1..Len(options) : options[j].value = p_lastArg /\ ~options[j].disabled

\* C18: every option press and every clear of the filter, the sort and the
\* picker calls the change callback exactly once, with the selection the
\* caller then holds, and leaves the selection it was given as it was.
C18_OneCallNoMutation ==
    /\ f_lastOp \in {"press", "clear"}
         => /\ Len(f_calls) = 1
            /\ f_calls[1] = selectedIds
            /\ f_propAfter = f_prev
    /\ s_lastId # NONE
         => /\ Len(s_calls) = 1
            /\ s_calls[1] = [id |-> selectedId, direction |-> sortDirection]
    /\ (\/ p_lastOp \in {"chip", "clear"}
        \/ (p_lastOp = "option" /\ PressedRowEnabled))
         => /\ Len(p_calls) = 1
            /\ StrictEq(p_calls[1], value)
            /\ StrictEq(p_propAfter, p_prevValue)

\* C18 witness: 'b' was added to the multi-select filter's selection ['a']
C18_Witness ==
    /\ f_lastOp = "press" /\ multiSelect /\ f_lastId = "b"
    /\ f_prev = <<"a">> /\ f_propAfter = <<"a">>
    /\ f_calls = << <<"a", "b">> >>

\* the icon set: the names of the icon components
IconSet == {"Settings", "Heart", "Info"}

\* C20: for a name that is not in the icon set AtomicIcon returns null,
\* throws nothing, and warns once in a development build and not at all in
\* a production build; for a name in the set it renders the icon.
C20_UnknownNameRendersNothing ==
    /\ iconName \notin IconSet
         => /\ i_output.kind = "null"
            /\ i_output.warnings = IF isDev THEN <<iconName>> ELSE <<>>
    /\ iconName \in IconSet
         => /\ i_output.kind = "icon"
            /\ i_output.warnings = <<>>

\* C21: the open picker shows the empty state exactly when no option is
\* left to list, because there is no option or because no option matches
\* the query, and the option list otherwise; neither opening nor typing
\* calls onChange.
C21_EmptyStateIffNoOption ==
    modalVisible
        => /\ modalContent(options, searchQuery) = "emptyMessage"
                <=> \/ options = <<>>
                    \/ (~IsBlank(searchQuery)
                          /\ MatchingPositions(options, searchQuery) = {})
           /\ modalContent(options, searchQuery) = "FlatList"
                <=> ~(\/ options = <<>>
                      \/ (~IsBlank(searchQuery)
                            /\ MatchingPositions(options, searchQuery) = {}))
           /\ p_lastOp \in {"open", "search"} => p_calls = <<>>

\* C21 witness: a query that no option of a list of two matches
C21_Witness ==
    /\ modalVisible /\ p_lastOp = "search" /\ Len(options) = 2
    /\ searchQuery # <<>>
    /\ modalContent(options, searchQuery) = "emptyMessage"
    /\ p_calls = <<>>

\* C22: on iOS a date set on the wheel reaches the caller's onChange only
\* when Done is pressed, and a sheet dismissed by the backdrop or by a swipe
\* leaves the value it was opened with.
C22_DoneConfirms ==
    platform = "ios"
        => /\ (d_lastOp = "event" /\ d_lastType = "set") => d_calls = <<>>
           /\ \/ d_lastOp \in {"backdrop", "requestClose"}
              \/ (d_lastOp = "event" /\ d_lastType = "dismissed")
              => dateValue = d_valueAtOpen

C23_DisabledNeverCalls ==
    controlDisabled => c_calls = <<>>

C23_Witness ==
    /\ controlDisabled
    /\ controlKind = "AtomicTouchable"
    /\ controlCallbacks
    /\ c_lastGesture = "longPress"
    /\ c_calls = <<>>

\* C25: in multi-select mode, two different chips pressed within one render
\* leave the selection that toggling the first and then the second gives.
C25_NoLostUpdate ==
    (multiSelect /\ f_lastOp = "rapid")
        => f_emitted = handleFilterPress(
                           handleFilterPress(f_prev, multiSelect, f_firstId),
                           multiSelect, f_lastId)

\* C26: a press on an enabled option in single-select mode with autoClose
\* calls onChange and leaves the modal closed with an empty search query;
\* without autoClose, and in multi-select mode whatever autoClose is, it
\* leaves the modal open and the search query as it was.
C26_SelectionLifecycle ==
    (p_lastOp = "option" /\ PressedRowEnabled)
        => IF ~multiple /\ autoClose
           THEN /\ p_calls # <<>>
                /\ ~modalVisible
                /\ searchQuery = <<>>
           ELSE /\ modalVisible
                /\ p_queryKept

\* C26 witness: with a query typed, an option of a multi-select picker with
\* autoClose was pressed and the modal stayed open with the query
C26_Witness ==
    /\ p_lastOp = "option" /\ PressedRowEnabled
    /\ multiple /\ autoClose
    /\ modalVisible /\ searchQuery # <<>> /\ p_queryKept

\* C27: the button of a disabled picker leaves modalVisible and searchQuery
\* as they were, and a press on a disabled option calls nothing and leaves
\* the modal open.
C27_DisabledInert ==
    /\ (disabled /\ p_lastOp = "open")
        => /\ modalVisible = p_prevModal
           /\ ~modalVisible
           /\ p_queryKept
    /\ (p_lastOp = "option" /\ ~PressedRowEnabled)
        => /\ p_calls = <<>>
           /\ modalVisible
           /\ p_queryKept

\* C27 witness: a disabled option of an open picker was pressed
C27_Witness ==
    /\ p_lastOp = "option" /\ ~PressedRowEnabled
    /\ ~multiple /\ autoClose
    /\ modalVisible /\ p_calls = <<>>

\* C28: the state passed to the inner input is the caller's state when one
\* is given, and otherwise 'error' exactly when there is an internal
\* validation error and 'default' when not; the helper text is the internal
\* error when there is one and the caller's helperText otherwise.
C28_StateAndHelperText ==
    /\ externalState # UNDEFINED => n_state = externalState
    /\ externalState = UNDEFINED
        => /\ n_state = "error" <=> internalError # NoError
           /\ n_state = "default" <=> internalError = NoError
    /\ internalError # NoError
        => n_helperText = [t |-> "internalError", v |-> internalError]
    /\ internalError = NoError
        => n_helperText = [t |-> "helperText", v |-> externalHelperText]

\* C28 witness: a keystroke took the value above max while the caller
\* passes state 'success' and a helper text
C28_Witness ==
    /\ n_lastOp = "key"
    /\ externalState = "success"
    /\ externalHelperText = "Enter your age"
    /\ internalError = MaximumValueIs(4)
    /\ n_state = "success"
    /\ n_helperText.t = "internalError"

\* C29: a badge with count n and max m shows 'm+' whenever n > m and the
\* decimal text of n otherwise, m = 0 included; a count of 0 renders nothing
\* unless showZero is true.
C29_MaxPlus ==
    /\ (badgeMax.def /\ b_output.kind = "badge")
        => b_output.text = IF badgeChildren > badgeMax.v
                           THEN integerToString(badgeMax.v) \o <<"+">>
                           ELSE integerToString(badgeChildren)
    /\ badgeChildren = 0 => (b_output.kind = "null" <=> ~showZero)
    /\ badgeChildren # 0 => b_output.kind = "badge"

\* the value prop is a whole number
IsWholeValue == progressValue % 2 = 0

\* value clamped into 0..100, for a whole value
ClampedWhole ==
    LET n == progressValue \div 2
    IN  IF n < 0 THEN 0 ELSE IF n > 100 THEN 100 ELSE n

\* C30: for every integer value, the fill width percentage and the number
\* displayed are 0 below 0, 100 above 100 and the value itself otherwise,
\* so the percentage is within 0..100.
C30_Clamped ==
    IsWholeValue
        => /\ g_output.width = 2 * ClampedWhole
           /\ g_output.number = ClampedWhole
           /\ g_output.width >= 0 /\ g_output.width <= 200
           /\ g_output.number >= 0 /\ g_output.number <= 100

\* C30 witness: the bar was re-rendered with a negative whole value and
\* shows 0%
C30_Witness ==
    /\ IsWholeValue
    /\ progressValue < 0
    /\ showPercentage
    /\ g_output.width = 0
    /\ g_output.number = 0
    /\ g_output.textShown

=============================================================================
